---- MODULE Spec2Model ----
(***************************************************************************)
(* StockPulse ingestion-and-alerting engine (src/src/ingestion.py) and the *)
(* request handlers of src/src/app.py that call into it.                   *)
(*                                                                         *)
(* Conventions of the model                                                *)
(*  - a price is an integer number of thousandths of a dollar (the code    *)
(*    rounds synthetic prices to 3 decimals): 100000 is 100.000;           *)
(*  - a percentage is an integer number of hundredths of a percent:        *)
(*    200 is 2 %, 1 is the 0.01 % threshold of price_change;               *)
(*  - a datetime / wall-clock value is an integer number of seconds; the   *)
(*    "%Y-%m-%d %H:%M:%S" strings of the code order as these integers do;  *)
(*  - a nullable column or optional argument is <<>> (None / NULL) or      *)
(*    <<v>>.                                                               *)
(***************************************************************************)
EXTENDS Integers, Sequences, FiniteSets, TLC

VARIABLES
    stock_data,              \* table stock_data: rows in rowid order
    alerts,                  \* table alerts: rows in id order (id = index)
    alert_history,           \* table alert_history
    faiss_index,             \* metadata written beside the FAISS index
    prev_prices,             \* global prev_prices: symbol -> <<>> or <<price>>
    API_KEY_INDEX,           \* global rotation index, 0-based
    API_KEY_REQUEST_COUNTS,  \* global per-credential counts
    LAST_RESET_TIME,         \* global window start
    now,                     \* wall clock
    pc,                      \* position of StockDataConnector.run
    symbols,                 \* StockDataConnector.symbols
    df,                      \* the batch of the tick in progress
    tick,                    \* number of the tick in progress
    emitted,                 \* events handed to socketio.emit, in order
    fetch,                   \* frame of the fetch_stock_data call in progress
    requests,                \* log of the per-symbol requests made so far
    calls,                   \* log of the fetch_stock_data calls that returned
    tickPrice,               \* per symbol, the latest price seen by the last pass
    returned,                \* log of the create_alert calls that returned
    stop_requested,          \* whether the application has asked the loop to stop
    pipeline_thread,         \* global pipeline_thread: 0 (None) or a thread of threads
    threads,                 \* the Thread objects created by start_pipeline, in order
    start_calls              \* position of each call of start_pipeline

vars == <<stock_data, alerts, alert_history, faiss_index, prev_prices,
          API_KEY_INDEX, API_KEY_REQUEST_COUNTS, LAST_RESET_TIME, now, pc,
          symbols, df, tick, emitted, fetch, requests, calls, tickPrice,
          returned, stop_requested, pipeline_thread, threads, start_calls>>

dbVars == <<stock_data, alerts, alert_history, faiss_index>>
rateVars == <<API_KEY_INDEX, API_KEY_REQUEST_COUNTS, LAST_RESET_TIME>>
fetchVars == <<fetch, requests, calls>>
threadVars == <<pipeline_thread, threads, start_calls>>
apiVars == <<returned, stop_requested, threadVars>>

----------------------------------------------------------------------------
(* Program constants *)

NumKeys == 7
API_REQUESTS_PER_MINUTE == 8
SLEEP_BETWEEN_SYMBOL_REQUESTS == 10
MAX_RETRIES == 3
BACKOFF_FACTOR == 2
COOLDOWN == 60
WINDOW == 60
TICK_SLEEP == 5
OUTPUTSIZE == 5
RECENT_LIMIT == 100
WINDOW_SIZE == 5
MINUTE == 60
PRICE_CHANGE_THRESHOLD == 1
TREND_STRENGTH == 5
DEFAULT_SEED == 100000
NVDA_SEED == 105527
AAPL_SEED == 206126
GAUSS_MAX == 429
JUMP_MAX == 300

(* Bounds of the model *)

MaxTicks == 3
MaxFetchTicks == 2
MaxAlerts == 2
MaxEvalTicks == 2
MaxRateTicks == 1
MaxRotateTicks == 2
MaxGenTicks == 1
MaxLiveTicks == 3
MaxClockTicks == 3
MaxPassTicks == 2
MaxFaultTicks == 2
NumCalls == 4
PopulateSteps == 18
StartTime == 600

SymbolPool == {"AAPL", "NVDA", "TSLA"}

Keys == 0 .. (NumKeys - 1)

None == <<>>
Some(v) == <<v>>
IsSet(x) == x # <<>>
\* Python truthiness of an optional float: None and 0.0 are falsy
Truthy(x) == x # <<>> /\ x[1] # 0

Abs(x) == IF x < 0 THEN -x ELSE x

REAL_TIME_PRICES(symbol) ==
    CASE symbol = "NVDA" -> NVDA_SEED
      [] symbol = "AAPL" -> AAPL_SEED
      [] OTHER -> DEFAULT_SEED

----------------------------------------------------------------------------
(* Queries on stock_data *)

\* row i comes before row j in ORDER BY datetime DESC (equal datetimes: the
\* reverse scan of idx_datetime yields the greater rowid first)
Before(i, j) ==
    \/ stock_data[i].datetime > stock_data[j].datetime
    \/ stock_data[i].datetime = stock_data[j].datetime /\ i > j

\* SELECT symbol, price FROM stock_data ORDER BY datetime DESC LIMIT 100
RecentRows ==
    {i \in DOMAIN stock_data :
        Cardinality({j \in DOMAIN stock_data : Before(j, i)}) < RECENT_LIMIT}

\* recent_data[recent_data['symbol'] == symbol]
SymbolData(symbol) == {i \in RecentRows : stock_data[i].symbol = symbol}

\* symbol_data.iloc[0]['price']
LatestPrice(symbol) ==
    LET S == SymbolData(symbol)
        top == CHOOSE i \in S : \A j \in S \ {i} : Before(i, j)
    IN  stock_data[top].price

\* SELECT price FROM stock_data WHERE symbol = ? ORDER BY datetime DESC LIMIT 1
\* (rows found through idx_symbol and sorted: of equal datetimes the first
\* inserted comes first)
LastPersisted(symbol) ==
    LET S == {i \in DOMAIN stock_data : stock_data[i].symbol = symbol}
        top == CHOOSE i \in S : \A j \in S \ {i} :
                   \/ stock_data[i].datetime > stock_data[j].datetime
                   \/ stock_data[i].datetime = stock_data[j].datetime /\ i < j
    IN  IF S = {} THEN None ELSE Some(stock_data[top].price)

\* SELECT MAX(datetime) FROM stock_data
MaxDatetime ==
    IF stock_data = <<>> THEN None
    ELSE Some(CHOOSE d \in {stock_data[i].datetime : i \in DOMAIN stock_data} :
                 \A i \in DOMAIN stock_data : stock_data[i].datetime <= d)

----------------------------------------------------------------------------
(* Alert Engine: monitor_alerts and create_alert *)

\* change >= percent, change = (latest - ref) / ref * 100 in numpy float
\* arithmetic (a zero ref gives +inf, nan or -inf, never an exception)
ChangeGE(latest, ref, percent) ==
    IF ref > 0 THEN (latest - ref) * 10000 >= percent * ref
    ELSE IF ref < 0 THEN (latest - ref) * 10000 <= percent * ref
    ELSE latest > ref

ChangeLE(latest, ref, percent) ==
    IF ref > 0 THEN (latest - ref) * 10000 <= percent * ref
    ELSE IF ref < 0 THEN (latest - ref) * 10000 >= percent * ref
    ELSE latest < ref

HighLowTriggered(a, latest_price) ==
    \/ Truthy(a.low) /\ latest_price < a.low[1]
    \/ Truthy(a.high) /\ latest_price > a.high[1]

\* a mutation of PercentChangeTriggered: strict comparisons
PercentChangeTriggered_Strict(a, latest_price) ==
    LET percent == a.percent[1]
        reference_price == a.reference_price[1]
    IN  \/ percent > 0 /\ ~ChangeLE(latest_price, reference_price, percent)
        \/ percent < 0 /\ ~ChangeGE(latest_price, reference_price, percent)

PercentChangeTriggered(a, latest_price) ==
    LET percent == a.percent[1]
        reference_price == a.reference_price[1]
    IN  \/ percent > 0 /\ ChangeGE(latest_price, reference_price, percent)
        \/ percent < 0 /\ ChangeLE(latest_price, reference_price, percent)

\* prev_price = prev_prices.get(symbol, latest_price)
PrevPriceOf(cache, symbol, latest_price) ==
    IF IsSet(cache[symbol]) THEN cache[symbol][1] ELSE latest_price

PriceChangeTriggered(prev_price, latest_price) ==
    /\ prev_price # 0
    /\ IF prev_price > 0
       THEN Abs(latest_price - prev_price) * 10000 >= PRICE_CHANGE_THRESHOLD * prev_price
       ELSE FALSE

\* the if / elif chain of one loop iteration
Triggered(a, latest_price, cache) ==
    IF a.alert_type = "high_low" THEN HighLowTriggered(a, latest_price)
    ELSE IF a.alert_type = "percent_change" /\ IsSet(a.percent) /\ IsSet(a.reference_price)
    THEN PercentChangeTriggered(a, latest_price)
    ELSE IF a.alert_type = "price_change"
    THEN PriceChangeTriggered(PrevPriceOf(cache, a.symbol, latest_price), latest_price)
    ELSE FALSE

\* a mutation of ActiveIds: the SELECT without its WHERE clause
ActiveIds_NoWhere(tbl) == [i \in 1 .. Len(tbl) |-> i]

\* the rows the SELECT ... WHERE status = 'active' returns, in id order
ActiveIds(tbl) ==
    LET F[i \in 0 .. Len(tbl)] ==
            IF i = 0 THEN <<>>
            ELSE IF tbl[i].status = "active" THEN Append(F[i - 1], i) ELSE F[i - 1]
    IN  F[Len(tbl)]

\* a mutation of MarkTriggered: a recurring design that re-arms the others
MarkTriggered_Rearm(tbl, alert_id) ==
    [i \in DOMAIN tbl |->
        [tbl[i] EXCEPT !.status = IF i = alert_id THEN "triggered" ELSE "active"]]

\* UPDATE alerts SET status = 'triggered' WHERE id = ?
MarkTriggered(tbl, alert_id) ==
    [tbl EXCEPT ![alert_id].status = "triggered"]

\* a mutation of HistoryAfter: the INSERT outside "if triggered"
HistoryAfter_Always(hist, rec, hit) == Append(hist, rec)

\* INSERT INTO alert_history ..., under "if triggered"
HistoryAfter(hist, rec, hit) == IF hit THEN Append(hist, rec) ELSE hist

\* socketio.emit('alert_triggered', ...), under "if triggered"
EmitAfter(out, ev, hit) == IF hit THEN Append(out, ev) ELSE out

\* the cache write that ends a loop iteration: prev_prices[symbol] = latest_price
CacheAfter(cache, symbol, latest_price) ==
    [cache EXCEPT ![symbol] = Some(latest_price)]

\* a value of a REAL column that SQLite has kept as text: a value bound as a
\* str that does not read as a number (percent = "2%")
Text(s) == <<"text", s>>
IsText(x) == Len(x) = 2

\* whether the evaluation of a rule raises: "percent > 0" on a str
EvalRaises(a) ==
    /\ a.alert_type = "percent_change"
    /\ IsSet(a.percent) /\ IsSet(a.reference_price)
    /\ IsText(a.percent)

\* a mutation of Skipped: symbol_data.iloc[0] of the empty frame raises
Skipped_Raise(st, a) == [st EXCEPT !.raised = TRUE]

\* "if symbol_data.empty: continue"
Skipped(st, a) == st

\* one iteration of "for alert in alerts" on the pass state st; an exception
\* leaves the loop for the except clause at the end of monitor_alerts
EvalOne(st, alert_id) ==
    LET a == alerts[alert_id]
    IN  IF SymbolData(a.symbol) = {} THEN Skipped(st, a)
        ELSE IF EvalRaises(a) THEN [st EXCEPT !.raised = TRUE]
        ELSE LET latest_price == LatestPrice(a.symbol)
                 hit == Triggered(a, latest_price, st.cache)
                 rec == [alert_id |-> alert_id, symbol |-> a.symbol,
                         price |-> latest_price, tick |-> tick]
                 ev == [event |-> "alert_triggered", alert_id |-> alert_id,
                        symbol |-> a.symbol, price |-> latest_price, tick |-> tick]
             IN  [tbl   |-> IF hit THEN MarkTriggered(st.tbl, alert_id) ELSE st.tbl,
                  hist  |-> HistoryAfter(st.hist, rec, hit),
                  out   |-> EmitAfter(st.out, ev, hit),
                  cache |-> CacheAfter(st.cache, a.symbol, latest_price),
                  raised |-> st.raised]

RECURSIVE EvalAll(_, _)
EvalAll(st, ids) ==
    IF ids = <<>> \/ st.raised THEN st
    ELSE EvalAll(EvalOne(st, Head(ids)), Tail(ids))

\* the state a pass starts from
PassStart ==
    [tbl |-> alerts, hist |-> alert_history, out |-> emitted,
     cache |-> prev_prices, raised |-> FALSE]

\* monitor_alerts(socketio): the whole pass, up to conn.commit() or to the
\* exception that ends it
MonitorResult == EvalAll(PassStart, ActiveIds(alerts))

\* a table after the pass: conn.commit() is the last statement of the try
\* block, and the connection of a pass that raised is dropped uncommitted
Committed(before, after, raised) == IF raised THEN before ELSE after

\* the latest price per symbol at the time of a pass (history variable)
SeenPrices ==
    [s \in SymbolPool |->
        IF SymbolData(s) = {} THEN None ELSE Some(LatestPrice(s))]

MonitorAlerts ==
    /\ pc = "alerts"
    /\ LET r == MonitorResult
       IN  /\ alerts' = Committed(alerts, r.tbl, r.raised)
           /\ alert_history' = Committed(alert_history, r.hist, r.raised)
           /\ emitted' = r.out
           /\ prev_prices' = r.cache
    /\ tickPrice' = SeenPrices
    /\ pc' = "sleep"
    /\ UNCHANGED <<stock_data, faiss_index, rateVars, now, symbols, apiVars, df, tick, fetchVars>>

\* the row create_alert inserts
NewAlert(args) ==
    [symbol |-> args.symbol, alert_type |-> args.alert_type,
     low |-> args.low, high |-> args.high, percent |-> args.percent,
     reference_price |-> args.reference_price, status |-> "active"]

\* None passed for a str argument (the other values of the argument being
\* strings, it is kept as a string of its own)
NullText == "None"

\* whether the INSERT raises: symbol and alert_type are NOT NULL columns
InsertRaises(args) == args.symbol = NullText \/ args.alert_type = NullText

\* the alerts table after the try block of create_alert: an exception of
\* the INSERT is logged and not raised again
AlertsAfter(tbl, args) ==
    IF InsertRaises(args) THEN tbl ELSE Append(tbl, NewAlert(args))

\* create_alert(symbol, alert_type, ...), called by a request handler
create_alert(args) ==
    /\ Len(returned) < MaxAlerts
    /\ alerts' = AlertsAfter(alerts, args)
    /\ returned' = Append(returned, args)
    /\ UNCHANGED <<stock_data, alert_history, faiss_index, prev_prices, rateVars,
                   now, pc, symbols, df, tick, emitted, fetchVars, tickPrice,
                   stop_requested, threadVars>>

----------------------------------------------------------------------------
(* Analytics Calculator, Persistence Layer, Vector Index Maintainer *)

\* calculate_analytics(df): rolling(window=5, min_periods=1) over the rows of
\* one symbol in the order of the frame; a row's window is kept as the
\* sequence of prices its mean and standard deviation are taken over
WindowAt(rows, k) ==
    LET same == SelectSeq([i \in 1 .. k |-> i], LAMBDA i : rows[i].symbol = rows[k].symbol)
        n == Len(same)
        from == IF n > WINDOW_SIZE THEN n - WINDOW_SIZE + 1 ELSE 1
    IN  [i \in 1 .. (n - from + 1) |-> rows[same[from + i - 1]].price]

calculate_analytics(rows) ==
    [k \in 1 .. Len(rows) |-> [rows[k] EXCEPT !.window = WindowAt(rows, k)]]

RECURSIVE SumSeq(_)
SumSeq(seq) == IF seq = <<>> THEN 0 ELSE Head(seq) + SumSeq(Tail(seq))

\* rolling(...).mean() of a window, as the pair of its sum and its size
rolling_mean(window) == [sum |-> SumSeq(window), n |-> Len(window)]

\* the sum of the squared differences of the pairs of a window, which is
\* n * (n - 1) times its sample variance
SpreadSq(window) ==
    LET n == Len(window)
    IN  SumSeq([k \in 1 .. n * n |->
                  LET i == ((k - 1) \div n) + 1
                      j == ((k - 1) % n) + 1
                  IN  IF i < j
                      THEN (window[i] - window[j]) * (window[i] - window[j]) ELSE 0])

\* rolling(...).std() of a window, in the unit of SpreadSq: NaN (None) on
\* fewer than two samples
rolling_std(window) == IF Len(window) < 2 THEN None ELSE Some(SpreadSq(window))

\* a mutation of fillna: the frame is returned as it is
fillna_Skip(x, value) == x

\* df['volatility'].fillna(0)
fillna(x, value) == IF x = None THEN Some(value) ELSE x

\* the annotations of a row, from the window they were computed over
moving_avg(row) == rolling_mean(row.window)
volatility(row) == fillna(rolling_std(row.window), 0)

\* a mutation of update_faiss_index: the except branch, which leaves the
\* index as it was before the first batch
update_faiss_index_Skip(rows) == <<>>

\* update_faiss_index(data, metadata): the index and the metadata file are
\* written anew from the rows of this call
update_faiss_index(rows) ==
    [k \in 1 .. Len(rows) |-> [symbol |-> rows[k].symbol, price |-> rows[k].price,
                               datetime |-> rows[k].datetime]]

\* df_to_save.to_sql('stock_data', conn, if_exists='append')
AppendRows(tbl, rows) == tbl \o rows

----------------------------------------------------------------------------
(* Synthetic Data Generator: create_mock_data *)

\* round(n / d) for d > 0, ties to even
RoundDiv(n, d) ==
    LET q == n \div d
        r == n % d
    IN  IF 2 * r < d THEN q
        ELSE IF 2 * r > d THEN q + 1
        ELSE IF q % 2 = 0 THEN q ELSE q + 1

\* max(new_price, base_price * 0.5)
FloorHalf(new_price, base_price) ==
    IF 2 * new_price >= base_price THEN new_price ELSE base_price \div 2

\* one symbol's price from its base price and the random draws: gauss is
\* random.gauss(0, 0.005) and jump is uniform(0.01, 0.03) * choice([-1, 1])
\* (0 when random() >= 0.1), both in units of 0.0001; trend is choice([-1, 1])
MockPrice(base_price, draw) ==
    LET change == draw.gauss + TREND_STRENGTH * draw.trend
        new_price == base_price + RoundDiv(base_price * change, 10000)
        floored == FloorHalf(new_price, base_price)
    IN  IF draw.jump = 0 THEN floored
        ELSE floored + RoundDiv(base_price * draw.jump, 10000)

\* a mutation of BasePrice: the seed price, whatever the history
BasePrice_SeedOnly(symbol) == REAL_TIME_PRICES(symbol)

\* base_price = result[0] if result else REAL_TIME_PRICES.get(symbol, 100.0)
BasePrice(symbol) ==
    LET result == LastPersisted(symbol)
    IN  IF IsSet(result) THEN result[1] ELSE REAL_TIME_PRICES(symbol)

\* the frame create_mock_data builds for syms at base_time, annotated
MockFrame(syms, base_time, draws) ==
    calculate_analytics(
        [k \in 1 .. Len(syms) |->
            [symbol |-> syms[k], price |-> MockPrice(BasePrice(syms[k]), draws[k]),
             datetime |-> base_time, window |-> <<>>, source |-> "mock",
             dup |-> FALSE, tick |-> tick]])

----------------------------------------------------------------------------
(* Bulk generator: populate_historical_data.py *)

\* one step of the walk of a symbol: the price moves by the change, is held
\* at half the seed price, and then jumps by a share of itself
PopulatePrice(current_price, seed, draw) ==
    LET change == draw.gauss + TREND_STRENGTH * draw.trend
        moved == current_price + RoundDiv(current_price * change, 10000)
        floored == FloorHalf(moved, seed)
    IN  IF draw.jump = 0 THEN floored
        ELSE floored + RoundDiv(floored * draw.jump, 10000)

\* the prices of the walk: trend_direction is drawn once per symbol, the
\* perturbation and the jump at every step
RECURSIVE PopulateWalk(_, _, _, _)
PopulateWalk(current_price, seed, trend, draws) ==
    IF draws = <<>> THEN <<>>
    ELSE LET price == PopulatePrice(current_price, seed,
                                    [Head(draws) EXCEPT !.trend = trend])
         IN  <<price>> \o PopulateWalk(price, seed, trend, Tail(draws))

\* the frame of one symbol, one row per minute, the last one a minute
\* before the program starts
PopulateFrame(symbol, trend, draws) ==
    LET seed == REAL_TIME_PRICES(symbol)
        prices == PopulateWalk(seed, seed, trend, draws)
    IN  [k \in 1 .. Len(prices) |->
            [symbol |-> symbol, price |-> prices[k],
             datetime |-> StartTime - (Len(prices) - k + 1) * MINUTE,
             window |-> <<>>, source |-> "hist", dup |-> FALSE, tick |-> 0]]

\* the script run on the database before the pipeline is started: DELETE
\* FROM stock_data, then the annotated walk is inserted
Populate(symbol, Walks) ==
    /\ pc = "tick"
    /\ tick = 1
    /\ stock_data = <<>>
    /\ \E trend \in {0 - 1, 1}, draws \in Walks :
          stock_data' = calculate_analytics(PopulateFrame(symbol, trend, draws))
    /\ UNCHANGED <<alerts, alert_history, faiss_index, prev_prices, rateVars, now,
                   pc, symbols, apiVars, df, tick, emitted, fetchVars, tickPrice>>

----------------------------------------------------------------------------
(* Streaming Orchestrator: StockDataConnector.run *)

\* a mutation of SyntheticClock: the minute is added to a persisted
\* timestamp only
SyntheticClock_NowAsIs ==
    IF IsSet(MaxDatetime) THEN MaxDatetime[1] + MINUTE ELSE now

\* self.last_timestamp of a closed-market tick
SyntheticClock ==
    (IF IsSet(MaxDatetime) THEN MaxDatetime[1] ELSE now) + MINUTE

\* top of the loop with is_market_open() False: create_mock_data(self.symbols,
\* self.last_timestamp), which generates, annotates and saves the batch
ClosedTick(Draws, ticks) ==
    /\ pc = "tick"
    /\ tick <= ticks
    /\ \E draws \in [1 .. Len(symbols) -> Draws] :
          LET rows == MockFrame(symbols, SyntheticClock, draws)
          IN  /\ stock_data' = AppendRows(stock_data, rows)
              /\ faiss_index' = update_faiss_index(rows)
              /\ df' = rows
    /\ pc' = "publish"
    /\ UNCHANGED <<alerts, alert_history, prev_prices, rateVars, now, symbols, apiVars,
                   tick, emitted, fetchVars, tickPrice>>

\* the same tick when to_sql raises in save_to_db: the exception is logged
\* and raised again, and create_mock_data returns an empty frame
ClosedTickSaveFails(ticks) ==
    /\ pc = "tick"
    /\ tick <= ticks
    /\ df' = <<>>
    /\ pc' = "publish"
    /\ UNCHANGED <<dbVars, prev_prices, rateVars, now, symbols, apiVars, tick, emitted,
                   fetchVars, tickPrice>>

\* a mutation of AfterIndexFailure: the exception leaves update_faiss_index
\* and save_to_db, and create_mock_data returns an empty frame
AfterIndexFailure_Raise(rows) == <<>>

\* the frame create_mock_data returns when update_faiss_index has failed:
\* the exception is logged there and save_to_db returns normally
AfterIndexFailure(rows) == rows

\* the same tick when update_faiss_index fails after to_sql has written the
\* rows: before faiss.write_index and the metadata write (both files as
\* they were), or in json.dump (the metadata file opened for writing and
\* left empty)
ClosedTickIndexFails(Draws, ticks) ==
    /\ pc = "tick"
    /\ tick <= ticks
    /\ \E draws \in [1 .. Len(symbols) -> Draws] :
          LET rows == MockFrame(symbols, SyntheticClock, draws)
          IN  /\ stock_data' = AppendRows(stock_data, rows)
              /\ df' = AfterIndexFailure(rows)
    /\ \E left \in {faiss_index, <<>>} : faiss_index' = left
    /\ pc' = "publish"
    /\ UNCHANGED <<alerts, alert_history, prev_prices, rateVars, now, symbols, apiVars,
                   tick, emitted, fetchVars, tickPrice>>

\* the stock_update events of "for _, row in df.iterrows()"
StockUpdates(rows) ==
    [k \in 1 .. Len(rows) |-> [event |-> "stock_update", alert_id |-> 0,
                               symbol |-> rows[k].symbol, price |-> rows[k].price,
                               tick |-> tick]]

\* pd.to_datetime(row["datetime"]).replace(tzinfo=pytz.UTC) raises on a row
\* that carries two "datetime" columns (row["datetime"] is then a Series)
RecordRaises(rows) == rows # <<>> /\ rows[1].dup

\* "if df is not None and not df.empty": publish one event per row; an
\* exception leaves the while loop through the except clause around it
Publish ==
    /\ pc = "publish"
    /\ IF RecordRaises(df) THEN emitted' = emitted /\ pc' = "dead"
       ELSE IF df # <<>>
       THEN emitted' = emitted \o StockUpdates(df) /\ pc' = "alerts"
       ELSE emitted' = emitted /\ pc' = "sleep"
    /\ UNCHANGED <<dbVars, prev_prices, rateVars, now, symbols, apiVars, df, tick,
                   fetchVars, tickPrice>>

\* the same step of a loop started by pipeline(DEFAULT_SYMBOLS, None), the
\* entry point of ingestion.py: self.socketio.emit raises on the first row
PublishNoSocket ==
    /\ pc = "publish"
    /\ pc' = IF df # <<>> THEN "dead" ELSE "sleep"
    /\ UNCHANGED <<dbVars, prev_prices, rateVars, now, symbols, apiVars, df, tick,
                   emitted, fetchVars, tickPrice>>

\* time.sleep(5), then the next iteration
Sleep ==
    /\ pc = "sleep"
    /\ now' = now + TICK_SLEEP
    /\ tick' = tick + 1
    /\ df' = <<>>
    /\ pc' = "tick"
    /\ UNCHANGED <<dbVars, prev_prices, rateVars, symbols, apiVars, emitted, fetchVars,
                   tickPrice>>

----------------------------------------------------------------------------
(* Market Data Fetcher with the Credential Rotator & Rate Limiter:         *)
(* fetch_stock_data                                                        *)

Idle == [i |-> 0, all_data |-> <<>>, attempts |-> 0, entered |-> 0]

NoCounts == [k \in Keys |-> 0]

\* the window reset at the entry of fetch_stock_data
EntryReset == now - LAST_RESET_TIME >= WINDOW

\* ts.as_pandas() of a response with data: one row per bar, newest first,
\* indexed by the bar's time
LiveRows(symbol, resp, t) ==
    [k \in 1 .. Len(resp.close) |->
        [symbol |-> symbol, price |-> resp.close[k],
         datetime |-> (t \div MINUTE) * MINUTE - (k - 1) * MINUTE,
         window |-> <<>>, source |-> "live", dup |-> FALSE, tick |-> tick]]

\* API_KEY_REQUEST_COUNTS[api_key] += 1
Charged(counts, api_key) == counts[api_key] + 1

\* if API_KEY_REQUEST_COUNTS[api_key] > API_REQUESTS_PER_MINUTE
LimitReached(counts, api_key) == Charged(counts, api_key) > API_REQUESTS_PER_MINUTE

\* a mutation of CountsAfter: the cooldown resets the credential in use only
CountsAfter_OwnOnly(counts, api_key) ==
    IF LimitReached(counts, api_key)
    THEN [counts EXCEPT ![api_key] = 1]
    ELSE [counts EXCEPT ![api_key] = Charged(counts, api_key)]

\* the counts after the charge and, when the limit is reached, the cooldown
CountsAfter(counts, api_key) ==
    IF LimitReached(counts, api_key)
    THEN [k \in Keys |-> IF k = api_key THEN 1 ELSE 0]
    ELSE [counts EXCEPT ![api_key] = Charged(counts, api_key)]

\* a mutation of NextKeyIndex: the credential is kept after a request that
\* raised
NextKeyIndex_KeepOnError(index, resp) ==
    IF resp.kind = "error" THEN index ELSE (index + 1) % NumKeys

\* API_KEY_INDEX = (API_KEY_INDEX + 1) % len(API_KEYS)
NextKeyIndex(index, resp) == (index + 1) % NumKeys

\* a mutation of EntryCounts: the credential is charged before the market
\* is checked
EntryCounts_Charged(counts) ==
    [k \in Keys |-> (IF EntryReset THEN 0 ELSE counts[k])
                      + (IF k = API_KEY_INDEX THEN 1 ELSE 0)]

\* the counts after the window check at the entry of fetch_stock_data
EntryCounts(counts) == IF EntryReset THEN NoCounts ELSE counts

\* run finds the market open and calls fetch_stock_data, which resets the
\* window when it is over and finds the market still open: the loop starts
OpenTick(ticks) ==
    /\ pc = "tick"
    /\ tick <= ticks
    /\ API_KEY_REQUEST_COUNTS' = EntryCounts(API_KEY_REQUEST_COUNTS)
    /\ LAST_RESET_TIME' = IF EntryReset THEN now ELSE LAST_RESET_TIME
    /\ fetch' = [i |-> 1, all_data |-> <<>>, attempts |-> 1, entered |-> now]
    /\ pc' = "fetch"
    /\ UNCHANGED <<dbVars, prev_prices, API_KEY_INDEX, now, symbols, apiVars, df, tick,
                   emitted, requests, calls, tickPrice>>

\* the same, with the market closed by the time fetch_stock_data checks it:
\* return create_mock_data(symbols)
OpenTickClosing(Draws, ticks) ==
    /\ pc = "tick"
    /\ tick <= ticks
    /\ API_KEY_REQUEST_COUNTS' = EntryCounts(API_KEY_REQUEST_COUNTS)
    /\ LAST_RESET_TIME' = IF EntryReset THEN now ELSE LAST_RESET_TIME
    /\ \E draws \in [1 .. Len(symbols) -> Draws] :
          LET rows == MockFrame(symbols, now, draws)
          IN  /\ stock_data' = AppendRows(stock_data, rows)
              /\ faiss_index' = update_faiss_index(rows)
              /\ df' = rows
    /\ calls' = Append(calls, [tick |-> tick, attempts |-> 1, result |-> "closed",
                               waited |-> 0])
    /\ pc' = "publish"
    /\ UNCHANGED <<alerts, alert_history, prev_prices, API_KEY_INDEX, now, symbols, apiVars,
                   tick, emitted, fetch, requests, tickPrice>>

\* one iteration of "for symbol in symbols": charge the credential, cool
\* down when its limit is reached, request, fall back to create_mock_data
\* ([symbol]) on an empty result or an exception, rotate, sleep
FetchSymbol(Responses, Draws) ==
    /\ pc = "fetch"
    /\ fetch.i <= Len(symbols)
    /\ \E resp \in Responses, draw \in Draws :
          LET symbol == symbols[fetch.i]
              api_key == API_KEY_INDEX
              limited == LimitReached(API_KEY_REQUEST_COUNTS, api_key)
              sent == IF limited THEN now + COOLDOWN ELSE now
              live == resp.kind = "data"
              rows == IF live THEN LiveRows(symbol, resp, sent)
                      ELSE MockFrame(<<symbol>>, sent, <<draw>>)
          IN  /\ API_KEY_REQUEST_COUNTS' = CountsAfter(API_KEY_REQUEST_COUNTS, api_key)
              /\ LAST_RESET_TIME' = IF limited THEN sent ELSE LAST_RESET_TIME
              /\ stock_data' = IF live THEN stock_data ELSE AppendRows(stock_data, rows)
              /\ faiss_index' = IF live THEN faiss_index ELSE update_faiss_index(rows)
              /\ fetch' = [fetch EXCEPT !.i = @ + 1, !.all_data = @ \o rows]
              /\ API_KEY_INDEX' = NextKeyIndex(API_KEY_INDEX, resp)
              /\ now' = sent + SLEEP_BETWEEN_SYMBOL_REQUESTS
              /\ requests' = Append(requests,
                     [symbol |-> symbol, api_key |-> api_key, kind |-> resp.kind,
                      before |-> API_KEY_REQUEST_COUNTS[api_key],
                      cooled |-> sent - now, tick |-> tick, pos |-> fetch.i])
    /\ UNCHANGED <<alerts, alert_history, prev_prices, pc, symbols, apiVars, df, tick,
                   emitted, calls, tickPrice>>

\* what the frame accumulated by the loop holds
FrameKind(all_data) ==
    LET sources == {all_data[k].source : k \in DOMAIN all_data}
    IN  IF sources = {} THEN "empty"
        ELSE IF sources = {"live"} THEN "live"
        ELSE IF sources = {"mock"} THEN "mock"
        ELSE "mixed"

\* reset_index().rename(columns={"index": "datetime", "close": "price"}) and
\* the column selection: a frame of live rows only keeps its bar times; a
\* frame of create_mock_data rows only gets a second "datetime" column, the
\* string of the RangeIndex value 0, ahead of its own
Renamed(all_data) ==
    IF FrameKind(all_data) = "mock"
    THEN [k \in DOMAIN all_data |-> [all_data[k] EXCEPT !.datetime = 0, !.dup = TRUE]]
    ELSE all_data

\* whether the post-processing of the accumulated frame raises: concatenating
\* live frames (close, datetime index) with create_mock_data frames (price,
\* datetime column, RangeIndex) leaves two "price" columns, each NaN where
\* the other is set, which calculate_analytics and the NOT NULL price of
\* stock_data reject
PostProcessRaises(all_data) == FrameKind(all_data) = "mixed"

\* whether the body of fetch_stock_data lets an exception out to @retry: the
\* "except Exception" around the whole body returns create_mock_data(symbols)
BodyRaises(all_data) == FALSE

\* the wait of @retry(delay=1, backoff=2) after the given failed attempt
RetryDelay(attempt) ==
    LET F[n \in 1 .. attempt] == IF n = 1 THEN 1 ELSE BACKOFF_FACTOR * F[n - 1]
    IN  F[attempt]

\* the loop is over and the frame is processed, saved and returned
FetchReturn ==
    /\ pc = "fetch"
    /\ fetch.i > Len(symbols)
    /\ FrameKind(fetch.all_data) \in {"live", "mock"}
    /\ LET rows == calculate_analytics(Renamed(fetch.all_data))
       IN  /\ stock_data' = AppendRows(stock_data, rows)
           /\ faiss_index' = update_faiss_index(rows)
           /\ df' = rows
    /\ calls' = Append(calls, [tick |-> tick, attempts |-> fetch.attempts,
                               result |-> FrameKind(fetch.all_data), waited |-> 0])
    /\ fetch' = Idle
    /\ pc' = "publish"
    /\ UNCHANGED <<alerts, alert_history, prev_prices, rateVars, now, symbols, apiVars,
                   tick, emitted, requests, tickPrice>>

\* the loop is over and the frame is empty or its processing raises: the
\* body returns create_mock_data(symbols); @retry would run the body again
\* only if the exception left the body
FetchFallback(Draws) ==
    /\ pc = "fetch"
    /\ fetch.i > Len(symbols)
    /\ FrameKind(fetch.all_data) = "empty" \/ PostProcessRaises(fetch.all_data)
    /\ IF BodyRaises(fetch.all_data) /\ fetch.attempts < MAX_RETRIES
       THEN /\ now' = now + RetryDelay(fetch.attempts)
            /\ fetch' = [i |-> 1, all_data |-> <<>>, attempts |-> fetch.attempts + 1,
                         entered |-> now']
            /\ UNCHANGED <<stock_data, faiss_index, df, calls, pc>>
       ELSE /\ \E draws \in [1 .. Len(symbols) -> Draws] :
                  LET rows == MockFrame(symbols, now, draws)
                  IN  /\ stock_data' = AppendRows(stock_data, rows)
                      /\ faiss_index' = update_faiss_index(rows)
                      /\ df' = rows
            /\ calls' = Append(calls, [tick |-> tick, attempts |-> fetch.attempts,
                                       result |-> "fallback",
                                       waited |-> now - fetch.entered])
            /\ fetch' = Idle
            /\ pc' = "publish"
            /\ now' = now
    /\ UNCHANGED <<alerts, alert_history, prev_prices, rateVars, symbols, apiVars, tick,
                   emitted, requests, tickPrice>>

\* the loop is over and save_to_db(all_data) raises: the except clause of
\* fetch_stock_data returns create_mock_data(symbols), which writes again;
\* that write succeeds or fails in its turn
FetchReturnSaveFails(Draws) ==
    /\ pc = "fetch"
    /\ fetch.i > Len(symbols)
    /\ FrameKind(fetch.all_data) \in {"live", "mock"}
    /\ \E ok \in BOOLEAN, draws \in [1 .. Len(symbols) -> Draws] :
          LET rows == MockFrame(symbols, now, draws)
          IN  /\ stock_data' = IF ok THEN AppendRows(stock_data, rows) ELSE stock_data
              /\ faiss_index' = IF ok THEN update_faiss_index(rows) ELSE faiss_index
              /\ df' = IF ok THEN rows ELSE <<>>
    /\ calls' = Append(calls, [tick |-> tick, attempts |-> fetch.attempts,
                               result |-> "save_failed", waited |-> 0])
    /\ fetch' = Idle
    /\ pc' = "publish"
    /\ UNCHANGED <<alerts, alert_history, prev_prices, rateVars, now, symbols, apiVars,
                   tick, emitted, requests, tickPrice>>

----------------------------------------------------------------------------
(* Initial states and specifications *)

NoPrices == [s \in SymbolPool |-> None]

\* a row left in stock_data by an earlier run of the program
HistoryRow(symbol, price) ==
    [symbol |-> symbol, price |-> price, datetime |-> StartTime - MINUTE,
     window |-> <<price>>, source |-> "mock", dup |-> FALSE, tick |-> 0]

\* the state after import and StockDataConnector(syms, socketio), on a
\* database that holds the rows data and the alert rules rules
InitWith(syms, data, rules) ==
    /\ stock_data = data
    /\ alerts = rules
    /\ alert_history = <<>>
    /\ faiss_index = <<>>
    /\ prev_prices = NoPrices
    /\ API_KEY_INDEX = 0
    /\ API_KEY_REQUEST_COUNTS = NoCounts
    /\ LAST_RESET_TIME = StartTime
    /\ now = StartTime
    /\ pc = "tick"
    /\ symbols = syms
    /\ df = <<>>
    /\ tick = 1
    /\ emitted = <<>>
    /\ fetch = Idle
    /\ requests = <<>>
    /\ calls = <<>>
    /\ tickPrice = NoPrices
    /\ returned = <<>>
    /\ stop_requested = FALSE
    /\ pipeline_thread = 0
    /\ threads = <<>>
    /\ start_calls = [h \in 1 .. NumCalls |-> "call"]

Draw(change) == [gauss |-> change - TREND_STRENGTH, trend |-> 1, jump |-> 0]

\* random draws: a change of 0 or +1 %
StepDraws == {Draw(0), Draw(100)}

Bars(p, q) == [kind |-> "data", close |-> <<p, q>>]
NoData == [kind |-> "empty", close |-> <<>>]
Failure == [kind |-> "error", close |-> <<>>]

\* provider responses: data, an empty result, an exception
SomeResponses == {Bars(101000, 100000), NoData, Failure}

PriceChangeArgs(symbol) ==
    [symbol |-> symbol, alert_type |-> "price_change", low |-> None, high |-> None,
     percent |-> None, reference_price |-> None]

HighLowArgs(symbol, low, high) ==
    [symbol |-> symbol, alert_type |-> "high_low", low |-> low, high |-> high,
     percent |-> None, reference_price |-> None]

PercentArgs(symbol, percent, reference_price) ==
    [symbol |-> symbol, alert_type |-> "percent_change", low |-> None, high |-> None,
     percent |-> percent, reference_price |-> reference_price]

SomeArgs ==
    {PriceChangeArgs("AAPL"), HighLowArgs("AAPL", Some(99500), Some(100500)),
     PercentArgs("AAPL", Some(100), Some(100000))}

CreateAlert(Args) == \E args \in Args : create_alert(args)

Init ==
    \E syms \in {<<"AAPL">>} :
    \E data \in {<<>>, <<HistoryRow("AAPL", 100000)>>} :
        InitWith(syms, data, <<>>)

\* the orchestrator with the market closed, and the request handlers that
\* create alert rules
Next ==
    \/ CreateAlert(SomeArgs)
    \/ ClosedTick(StepDraws, MaxTicks)
    \/ Publish
    \/ MonitorAlerts
    \/ Sleep

Spec == Init /\ [][Next]_vars

InitFetch ==
    \E syms \in {<<"AAPL">>, <<"AAPL", "NVDA">>} :
        InitWith(syms, <<>>, <<>>)

\* the orchestrator with the market open
NextFetch ==
    \/ OpenTick(MaxFetchTicks)
    \/ OpenTickClosing(StepDraws, MaxFetchTicks)
    \/ FetchSymbol(SomeResponses, StepDraws)
    \/ FetchReturn
    \/ FetchFallback(StepDraws)
    \/ Publish
    \/ MonitorAlerts
    \/ Sleep

SpecFetch == InitFetch /\ [][NextFetch]_vars

\* The alert conditions: one persisted rule over a closed-market price walk

\* bounds unset, zero or at the thresholds 90 and 110; targets unset, zero
\* or +-2 % of the reference price 100
EvalArgs ==
    {HighLowArgs("TSLA", low, high) :
        low \in {None, Some(0), Some(90000)}, high \in {None, Some(0), Some(110000)}}
    \cup {PercentArgs("TSLA", percent, reference_price) :
        percent \in {None, Some(0), Some(200), Some(0 - 200)},
        reference_price \in {None, Some(100000)}}

\* last prices an earlier run has left
EvalHistory ==
    {<<>>} \cup {<<HistoryRow("TSLA", price)>> :
                    price \in {89000, 90000, 100000, 110000, 111000}}

\* random draws: a change of -2 %, 0, +1.9 % or +2 %
EvalDraws == {Draw(0 - 200), Draw(0), Draw(190), Draw(200)}

InitEval ==
    \E data \in EvalHistory : \E args \in EvalArgs :
        InitWith(<<"TSLA">>, data, <<NewAlert(args)>>)

NextEval ==
    \/ ClosedTick(EvalDraws, MaxEvalTicks)
    \/ Publish
    \/ MonitorAlerts
    \/ Sleep

SpecEval == InitEval /\ [][NextEval]_vars

\* The rate limiter: a batch long enough to charge one credential beyond
\* its per-minute budget within one call

RateBatch == NumKeys * API_REQUESTS_PER_MINUTE + 1

\* a symbol list of the given length over the pool
LongBatch(n) ==
    [k \in 1 .. n |-> IF k % 3 = 1 THEN "AAPL" ELSE IF k % 3 = 2 THEN "NVDA" ELSE "TSLA"]

\* the provider answers every request within the budget with data and the
\* requests beyond it in any way
RateResponses ==
    IF fetch.i >= RateBatch THEN SomeResponses ELSE {Bars(101000, 100000)}

InitRate ==
    \E n \in {RateBatch, RateBatch + 1} : InitWith(LongBatch(n), <<>>, <<>>)

NextRate ==
    \/ OpenTick(MaxRateTicks)
    \/ FetchSymbol(RateResponses, {Draw(0)})
    \/ FetchReturn
    \/ FetchFallback({Draw(0)})
    \/ Publish
    \/ MonitorAlerts
    \/ Sleep

SpecRate == InitRate /\ [][NextRate]_vars

\* The credential rotation: batches of four symbols, so that the index
\* wraps around the list of credentials in the second batch

InitRotate == InitWith(LongBatch(4), <<>>, <<>>)

\* the provider answers the first two requests of a batch with data and the
\* other two in any way
RotateResponses ==
    IF fetch.i >= 3 THEN SomeResponses ELSE {Bars(101000, 100000)}

NextRotate ==
    \/ OpenTick(MaxRotateTicks)
    \/ FetchSymbol(RotateResponses, {Draw(0)})
    \/ FetchReturn
    \/ FetchFallback({Draw(0)})
    \/ Publish
    \/ MonitorAlerts
    \/ Sleep

SpecRotate == InitRotate /\ [][NextRotate]_vars

\* The generators: the bulk walk and closed-market ticks under draws at the
\* ends of their ranges

\* no change; a fall of 1 % with a jump of -3 %; the largest fall and the
\* largest rise random.gauss and random.uniform can give
Down == [gauss |-> 0 - 100, trend |-> 0 - 1, jump |-> 0 - JUMP_MAX]
Worst == [gauss |-> 0 - GAUSS_MAX, trend |-> 0 - 1, jump |-> 0 - JUMP_MAX]
Best == [gauss |-> GAUSS_MAX, trend |-> 1, jump |-> JUMP_MAX]
GenDraws == {Draw(0), Down, Worst, Best}

\* walks that follow one draw and then another
Walks(steps, Draws) ==
    {[i \in 1 .. steps |-> IF i < k THEN d1 ELSE d2] :
        d1 \in Draws, d2 \in Draws, k \in 1 .. steps}

InitGen == \E syms \in {<<"AAPL">>, <<"TSLA">>} : InitWith(syms, <<>>, <<>>)

NextGen ==
    \/ Populate("AAPL", Walks(PopulateSteps, {Draw(0), Down, Best}))
    \/ ClosedTick(GenDraws, MaxGenTicks)
    \/ Publish
    \/ MonitorAlerts
    \/ Sleep

SpecGen == InitGen /\ [][NextGen]_vars

\* One symbol while the market opens and closes: responses of five bars,
\* newest first, and ticks that take either branch of the market check

Quote(close) == [kind |-> "data", close |-> close]
FlatBars == Quote(<<206000, 206000, 206000, 206000, 206000>>)
RisingBars == Quote(<<206400, 206300, 206200, 206100, 206000>>)
LiveResponses == {FlatBars, RisingBars, Failure}

\* the application asks the running loop to stop
RequestStop ==
    /\ ~stop_requested
    /\ stop_requested' = TRUE
    /\ UNCHANGED <<dbVars, prev_prices, rateVars, now, pc, symbols, df, tick,
                   emitted, fetchVars, tickPrice, returned, threadVars>>

InitLive == InitWith(<<"AAPL">>, <<>>, <<>>)

NextLive ==
    \/ ClosedTick({Draw(0)}, MaxLiveTicks)
    \/ OpenTick(MaxLiveTicks)
    \/ OpenTickClosing({Draw(0)}, MaxLiveTicks)
    \/ FetchSymbol(LiveResponses, {Draw(0)})
    \/ FetchReturn
    \/ Publish
    \/ MonitorAlerts
    \/ Sleep
    \/ RequestStop

SpecLive == InitLive /\ [][NextLive]_vars

\* The request handlers together with the loop: create_alert called with
\* the arguments set_alert passes, and with None for its symbol

ApiArgs == SomeArgs \cup {PriceChangeArgs(NullText)}

InitApi == InitWith(<<"AAPL">>, <<HistoryRow("AAPL", 100000)>>, <<>>)

NextApi ==
    \/ CreateAlert(ApiArgs)
    \/ ClosedTick(StepDraws, MaxTicks)
    \/ Publish
    \/ MonitorAlerts
    \/ Sleep

SpecApi == InitApi /\ [][NextApi]_vars

\* The loop of "python ingestion.py": pipeline(DEFAULT_SYMBOLS, None)

InitMain ==
    \E data \in {<<>>, <<HistoryRow("AAPL", 100000)>>} :
        InitWith(<<"NVDA", "AAPL">>, data, <<>>)

NextMain ==
    \/ ClosedTick(StepDraws, MaxTicks)
    \/ OpenTick(MaxTicks)
    \/ OpenTickClosing(StepDraws, MaxTicks)
    \/ FetchSymbol(SomeResponses, StepDraws)
    \/ FetchReturn
    \/ FetchFallback(StepDraws)
    \/ PublishNoSocket

SpecMain == InitMain /\ [][NextMain]_vars

\* One symbol with a persisted rule that no price of the run triggers, over
\* ticks that find the market closed or open and get data

ClockRule == NewAlert(HighLowArgs("AAPL", Some(1000), None))

InitClock == InitWith(<<"AAPL">>, <<>>, <<ClockRule>>)

NextClock ==
    \/ ClosedTick(StepDraws, MaxClockTicks)
    \/ OpenTick(MaxClockTicks)
    \/ FetchSymbol({Bars(101000, 100000), Bars(102000, 101000)}, StepDraws)
    \/ FetchReturn
    \/ Publish
    \/ MonitorAlerts
    \/ Sleep

SpecClock == InitClock /\ [][NextClock]_vars

\* The evaluation pass over several persisted rules: one that triggers
\* above 100.5, one whose percent was stored as text, one on a symbol that
\* is not tracked, one on any price change

PassRules ==
    {NewAlert(HighLowArgs("AAPL", None, Some(100500))),
     NewAlert(PercentArgs("AAPL", Text("2%"), Some(100000))),
     NewAlert(PriceChangeArgs("NVDA")),
     NewAlert(PriceChangeArgs("AAPL"))}

\* two or three different rules, in any order
PassRuleLists ==
    {<<a, b>> : a \in PassRules, b \in PassRules}
    \cup {<<a, b, c>> : a \in PassRules, b \in PassRules, c \in PassRules}

InitPass ==
    \E rules \in PassRuleLists :
        /\ \A i, j \in DOMAIN rules : i # j => rules[i] # rules[j]
        /\ InitWith(<<"AAPL">>, <<HistoryRow("AAPL", 100000)>>, rules)

NextPass ==
    \/ ClosedTick(StepDraws, MaxPassTicks)
    \/ Publish
    \/ MonitorAlerts
    \/ Sleep

SpecPass == InitPass /\ [][NextPass]_vars

\* One symbol over ticks in which the write to stock_data or the update of
\* the index can fail

InitFaults ==
    \E data \in {<<>>, <<HistoryRow("AAPL", 100000)>>} :
        InitWith(<<"AAPL">>, data, <<ClockRule>>)

NextFaults ==
    \/ ClosedTick(StepDraws, MaxFaultTicks)
    \/ ClosedTickSaveFails(MaxFaultTicks)
    \/ ClosedTickIndexFails(StepDraws, MaxFaultTicks)
    \/ OpenTick(MaxFaultTicks)
    \/ FetchSymbol({Bars(101000, 100000)}, StepDraws)
    \/ FetchReturn
    \/ FetchReturnSaveFails(StepDraws)
    \/ Publish
    \/ MonitorAlerts
    \/ Sleep

SpecFaults == InitFaults /\ [][NextFaults]_vars

----------------------------------------------------------------------------
(* Worker start: start_pipeline, called by __main__ and by update_symbols *)

\* pipeline_thread.is_alive(): true from start() until pipeline returns
is_alive(t) == threads[t] = "alive"

\* "if pipeline_thread is None or not pipeline_thread.is_alive()"
MayStart == pipeline_thread = 0 \/ ~is_alive(pipeline_thread)

\* call 1 is the call of __main__, made before socketio.run serves requests;
\* the other calls are made by update_symbols handlers, each on its own
\* thread of the server
Serving(h) == h = 1 \/ start_calls[1] = "done"

\* start_pipeline, up to the outcome of its test
StartCheck(h) ==
    /\ start_calls[h] = "call"
    /\ Serving(h)
    /\ start_calls' = [start_calls EXCEPT ![h] = IF MayStart THEN "create" ELSE "done"]
    /\ UNCHANGED <<dbVars, prev_prices, rateVars, now, pc, symbols, df, tick, emitted,
                   fetchVars, tickPrice, returned, stop_requested, pipeline_thread,
                   threads>>

\* "pipeline_thread = threading.Thread(target=pipeline, ...)"
StartCreate(h) ==
    /\ start_calls[h] = "create"
    /\ threads' = Append(threads, "new")
    /\ pipeline_thread' = Len(threads) + 1
    /\ start_calls' = [start_calls EXCEPT ![h] = "start"]
    /\ UNCHANGED <<dbVars, prev_prices, rateVars, now, pc, symbols, df, tick, emitted,
                   fetchVars, tickPrice, returned, stop_requested>>

\* the thread after start(): a thread that was already started raises
\* RuntimeError, which the except clause of start_pipeline logs
Started(t) == IF threads[t] = "new" THEN [threads EXCEPT ![t] = "alive"] ELSE threads

\* "pipeline_thread.start()", on the thread the global names at that moment
StartThread(h) ==
    /\ start_calls[h] = "start"
    /\ threads' = Started(pipeline_thread)
    /\ start_calls' = [start_calls EXCEPT ![h] = "done"]
    /\ UNCHANGED <<dbVars, prev_prices, rateVars, now, pc, symbols, df, tick, emitted,
                   fetchVars, tickPrice, returned, stop_requested, pipeline_thread>>

\* pipeline returns (pw.run() has returned or raised): the thread ends
WorkerDies(t) ==
    /\ is_alive(t)
    /\ threads' = [threads EXCEPT ![t] = "dead"]
    /\ UNCHANGED <<dbVars, prev_prices, rateVars, now, pc, symbols, df, tick, emitted,
                   fetchVars, tickPrice, returned, stop_requested, pipeline_thread,
                   start_calls>>

InitStart == InitWith(<<"NVDA", "AAPL">>, <<>>, <<>>)

NextStart ==
    \/ \E h \in 1 .. NumCalls : StartCheck(h)
    \/ \E h \in 1 .. NumCalls : StartCreate(h)
    \/ \E h \in 1 .. NumCalls : StartThread(h)
    \/ \E t \in DOMAIN threads : WorkerDies(t)

SpecStart == InitStart /\ [][NextStart]_vars

----------------------------------------------------------------------------
(* Properties of the alert lifecycle *)

\* a step that is one whole monitor_alerts pass
PassStep == pc = "alerts" /\ pc' = "sleep"

HistoryOf(hist, alert_id) == {k \in DOMAIN hist : hist[k].alert_id = alert_id}

TriggerEventsOf(out, alert_id) ==
    {k \in DOMAIN out : out[k].event = "alert_triggered" /\ out[k].alert_id = alert_id}

\* C1: over any sequence of create_alert calls and evaluation passes a rule's
\* status changes only from 'active' to 'triggered': a triggered rule never
\* becomes active again, no rule is deleted or rewritten, and no status other
\* than 'active' and 'triggered' is ever stored.
C1_StatusOnlyActiveToTriggered ==
    [][/\ \A i \in DOMAIN alerts :
            /\ i \in DOMAIN alerts'
            /\ [alerts'[i] EXCEPT !.status = alerts[i].status] = alerts[i]
            /\ alerts'[i].status # alerts[i].status
                  => alerts[i].status = "active" /\ alerts'[i].status = "triggered"
       /\ \A i \in DOMAIN alerts' : alerts'[i].status \in {"active", "triggered"}]_vars

\* C1 witness: a rule triggered in an earlier tick has stayed triggered
\* through a later pass, beside a rule created since
C1_Witness ==
    /\ pc = "sleep"
    /\ \E i \in DOMAIN alerts :
          /\ alerts[i].status = "triggered"
          /\ \E k \in HistoryOf(alert_history, i) : alert_history[k].tick < tick
    /\ \E j \in DOMAIN alerts : alerts[j].status = "active"

\* C2: every alert rule has at most one alert_history record, and exactly
\* one if and only if its status is 'triggered' (in every state, so also in
\* every state that follows a completed pass).
C2_OneRecordPerTrigger ==
    \A i \in DOMAIN alerts :
        LET n == Cardinality(HistoryOf(alert_history, i))
        IN  n <= 1 /\ (n = 1 <=> alerts[i].status = "triggered")

\* C2 witness: after a pass, a triggered rule with its record and a rule that
\* was evaluated and stayed active
C2_Witness ==
    /\ pc = "sleep"
    /\ \E i, j \in DOMAIN alerts :
          /\ alerts[i].status = "triggered"
          /\ Cardinality(HistoryOf(alert_history, i)) = 1
          /\ alerts[j].status = "active"
          /\ IsSet(prev_prices[alerts[j].symbol])

\* C3: a pass leaves every rule that is already 'triggered' untouched: it is
\* not selected, its row is unchanged, no alert_history record is added for
\* it and no alert_triggered event is published for it.
C3_TriggeredRuleUntouched ==
    [][PassStep =>
        \A i \in DOMAIN alerts :
            alerts[i].status = "triggered" =>
                /\ \A k \in DOMAIN ActiveIds(alerts) : ActiveIds(alerts)[k] # i
                /\ alerts'[i] = alerts[i]
                /\ HistoryOf(alert_history', i) = HistoryOf(alert_history, i)
                /\ TriggerEventsOf(emitted', i) = TriggerEventsOf(emitted, i)]_vars

\* C3 witness: a pass has run over a rule triggered in an earlier tick whose
\* condition still holds on the latest price
C3_Witness ==
    /\ pc = "sleep"
    /\ \E i \in DOMAIN alerts :
          /\ alerts[i].status = "triggered"
          /\ alerts[i].alert_type = "high_low"
          /\ \E k \in HistoryOf(alert_history, i) : alert_history[k].tick < tick
          /\ HighLowTriggered(alerts[i], LatestPrice(alerts[i].symbol))
          /\ Cardinality(HistoryOf(alert_history, i)) = 1
          /\ Cardinality(TriggerEventsOf(emitted, i)) = 1

\* the price of the symbol at the previous tick, as the previous pass saw it,
\* or the latest price when there was none
PrevTickPrice(symbol, latest_price) ==
    IF IsSet(tickPrice[symbol]) THEN tickPrice[symbol][1] ELSE latest_price

\* C6: in every pass, every active price_change rule whose symbol has data
\* is compared against the symbol's price of the previous tick (the latest
\* price when there is none) and triggers if and only if
\* |latest - prev| / prev * 100 >= 0.01, whatever other rules exist.
C6_PriceChangeAgainstPreviousTick ==
    [][PassStep =>
        \A i \in DOMAIN alerts :
            (/\ alerts[i].status = "active"
             /\ alerts[i].alert_type = "price_change"
             /\ SymbolData(alerts[i].symbol) # {})
            => LET latest_price == LatestPrice(alerts[i].symbol)
                   prev == PrevTickPrice(alerts[i].symbol, latest_price)
               IN  alerts'[i].status = "triggered"
                      <=> PriceChangeTriggered(prev, latest_price)]_vars

\* an active rule of the given kind whose symbol has data, at a pass
Evaluated(i, alert_type) ==
    /\ alerts[i].status = "active"
    /\ alerts[i].alert_type = alert_type
    /\ SymbolData(alerts[i].symbol) # {}

\* C4: in every pass, an active high_low rule whose symbol has the latest
\* price p triggers if and only if (low is set and p < low) or (high is set
\* and p > high), for every value a set bound can take.
C4_HighLowIffOutsideSetBounds ==
    [][PassStep =>
        \A i \in DOMAIN alerts :
            Evaluated(i, "high_low") =>
                LET p == LatestPrice(alerts[i].symbol)
                    low == alerts[i].low
                    high == alerts[i].high
                IN  alerts'[i].status = "triggered"
                       <=> \/ IsSet(low) /\ p < low[1]
                           \/ IsSet(high) /\ p > high[1]]_vars

----------------------------------------------------------------------------
(* Properties of the quote fetcher *)

\* a step that is one iteration of the per-symbol loop
RequestStep == Len(requests') = Len(requests) + 1

\* C7: when the credential about to be used has already been charged
\* API_REQUESTS_PER_MINUTE requests in the window, the request is sent only
\* after the 60 second cooldown; after it that credential's count is 1 and
\* every other count is 0, and the loop goes on: no error reaches the caller.
C7_CooldownWhenBudgetSpent ==
    [][(RequestStep /\ API_KEY_REQUEST_COUNTS[API_KEY_INDEX] >= API_REQUESTS_PER_MINUTE)
        => /\ now' = now + COOLDOWN + SLEEP_BETWEEN_SYMBOL_REQUESTS
           /\ requests'[Len(requests')].cooled = COOLDOWN
           /\ requests'[Len(requests')].api_key = API_KEY_INDEX
           /\ API_KEY_REQUEST_COUNTS'[API_KEY_INDEX] = 1
           /\ \A k \in Keys \ {API_KEY_INDEX} : API_KEY_REQUEST_COUNTS'[k] = 0
           /\ pc' = "fetch"
           /\ fetch'.i = fetch.i + 1]_vars

\* C7 witness: the request that found 8 charges on its credential has just
\* been sent after the cooldown, other credentials having been charged too
C7_Witness ==
    /\ requests # <<>>
    /\ requests[Len(requests)].before = API_REQUESTS_PER_MINUTE
    /\ requests[Len(requests)].cooled = COOLDOWN
    /\ API_KEY_REQUEST_COUNTS[requests[Len(requests)].api_key] = 1
    /\ \E k \in DOMAIN requests :
          /\ requests[k].api_key # requests[Len(requests)].api_key
          /\ requests[k].before = API_REQUESTS_PER_MINUTE - 1

\* C8: every request uses the credential at API_KEY_INDEX, and the next
\* request, in the same batch or a later one, uses the next credential of
\* the list, whatever the outcome of the request before it.
C8_RoundRobinWhateverOutcome ==
    /\ \A k \in DOMAIN requests : requests[k].api_key = (k - 1) % NumKeys
    /\ API_KEY_INDEX = Len(requests) % NumKeys

\* C8 witness: the eighth request, in the second batch, uses the first
\* credential again, after requests that returned data, nothing and an
\* exception, the one before it having raised
C8_Witness ==
    /\ Len(requests) = NumKeys + 1
    /\ requests[NumKeys + 1].api_key = 0
    /\ requests[NumKeys + 1].tick = 2
    /\ requests[NumKeys].kind = "error"
    /\ requests[NumKeys - 3].kind = "empty"
    /\ requests[NumKeys - 3].tick = 1

\* C9: a batch whose fetch failed as a whole and fell back to synthetic
\* data for all symbols was attempted MAX_RETRIES times before.
C9_FallbackOnlyAfterThreeAttempts ==
    \A k \in DOMAIN calls :
        calls[k].result = "fallback" => calls[k].attempts = MAX_RETRIES

\* C10: the batch fetch_stock_data returns holds, for every symbol whose
\* request of this tick returned data, that symbol's live observations, and
\* synthetic ones only for the symbols whose request failed.
C10_PartialDegradation ==
    (pc = "publish" /\ calls # <<>> /\ calls[Len(calls)].tick = tick)
    => \A k \in DOMAIN requests :
          requests[k].tick = tick =>
              \E j \in DOMAIN df :
                  /\ df[j].symbol = requests[k].symbol
                  /\ df[j].source = IF requests[k].kind = "data" THEN "live" ELSE "mock"

----------------------------------------------------------------------------
(* Properties of the batches a tick persists *)

\* the rows of stock_data a tick has appended for a symbol
RowsOfTick(symbol, t) ==
    {i \in DOMAIN stock_data : stock_data[i].tick = t /\ stock_data[i].symbol = symbol}

\* C11: when a tick is over, it has appended exactly one stock_data row for
\* every tracked symbol.
C11_OneRowPerSymbolPerTick ==
    pc = "sleep" =>
        \A k \in DOMAIN symbols : Cardinality(RowsOfTick(symbols[k], tick)) = 1

\* the rows a step has added to stock_data
NewRows ==
    IF Len(stock_data') > Len(stock_data)
    THEN (Len(stock_data) + 1) .. Len(stock_data') ELSE {}

\* the basis price of a symbol: the price of its persisted observation with
\* the greatest datetime, or its seed price
IsBasis(symbol, price) ==
    LET S == {i \in DOMAIN stock_data : stock_data[i].symbol = symbol}
    IN  IF S = {} THEN price = REAL_TIME_PRICES(symbol)
        ELSE \E i \in S : /\ stock_data[i].price = price
                          /\ \A j \in S : stock_data[j].datetime <= stock_data[i].datetime

BasisPrices(symbol) ==
    {p \in {REAL_TIME_PRICES(symbol)} \cup {stock_data[j].price : j \in DOMAIN stock_data} :
        IsBasis(symbol, p)}

\* C12: every price a synthetic generator produces is at least half the
\* basis price that seeded it, whatever the random draws.
C12_SyntheticPriceAtLeastHalfBasis ==
    [][\A i \in NewRows :
          stock_data'[i].source \in {"mock", "hist"} =>
              \A basis \in BasisPrices(stock_data'[i].symbol) :
                  2 * stock_data'[i].price >= basis]_vars

\* the prices of the most recent min(5, k) observations of the symbol of
\* row i that were persisted up to and including row i
TrailingWindow(i) ==
    LET same == SelectSeq([j \in 1 .. i |-> j],
                          LAMBDA j : stock_data[j].symbol = stock_data[i].symbol)
        k == Len(same)
        from == IF k > WINDOW_SIZE THEN k - WINDOW_SIZE + 1 ELSE 1
    IN  [n \in 1 .. (k - from + 1) |-> stock_data[same[from + n - 1]].price]

\* C13: every persisted observation has moving_avg equal to the mean of the
\* prices of its symbol's most recent min(5, k) persisted observations, itself
\* included.
C13_MovingAvgOverTrailingWindow ==
    \A i \in DOMAIN stock_data :
        LET avg == moving_avg(stock_data[i])
            trail == TrailingWindow(i)
        IN  avg.n > 0 /\ avg.sum * Len(trail) = SumSeq(trail) * avg.n

----------------------------------------------------------------------------
(* Properties of the streaming loop *)

\* C15: no failure inside a tick terminates the streaming loop: the loop
\* never leaves "while True" through the except clause of run, so a further
\* tick can always start.
C15_LoopNeverTerminates == pc # "dead"

\* a tick that finds the market closed, in run or at the entry of
\* fetch_stock_data
ClosedStep == pc = "tick" /\ pc' = "publish"

\* C16: when the market is closed no request is made and no credential is
\* charged or rotated: a closed-market tick of run leaves API_KEY_INDEX and
\* every count unchanged, and fetch_stock_data called while the market is
\* closed returns synthetic rows, increments no count and leaves the index.
C16_ClosedMarketChargesNothing ==
    [][ClosedStep =>
          /\ API_KEY_INDEX' = API_KEY_INDEX
          /\ requests' = requests
          /\ \A k \in 1 .. Len(df') : df'[k].source = "mock"
          /\ \A key \in Keys : API_KEY_REQUEST_COUNTS'[key] <= API_KEY_REQUEST_COUNTS[key]
          /\ (calls' = calls => API_KEY_REQUEST_COUNTS' = API_KEY_REQUEST_COUNTS)]_vars

\* fetch_stock_data has just returned synthetic rows for a closed market,
\* with a credential charged and the index advanced by an earlier tick
C16_Witness ==
    /\ pc = "publish"
    /\ calls # <<>>
    /\ calls[Len(calls)].result = "closed"
    /\ calls[Len(calls)].tick = tick
    /\ API_KEY_INDEX # 0
    /\ \E key \in Keys : API_KEY_REQUEST_COUNTS[key] > 0
    /\ \E k \in 1 .. Len(stock_data) :
          stock_data[k].source = "mock" /\ stock_data[k].tick \in 1 .. (tick - 1)

\* C17: after one tick with a single tracked symbol, the market closed, an
\* empty store and no rule: exactly one stock_data row is persisted, with
\* moving_avg equal to its price and volatility 0, the vector index holds
\* exactly one entry, exactly one stock_update event is published, and no
\* rule is evaluated or triggered.
C17_SingleSymbolClosedTick ==
    (/\ pc = "sleep" /\ tick = 1
     /\ Len(symbols) = 1
     /\ alerts = <<>>
     /\ \A i \in DOMAIN stock_data : stock_data[i].tick # 0)
    => /\ Len(stock_data) = 1
       /\ stock_data[1].symbol = symbols[1]
       /\ moving_avg(stock_data[1]) = [sum |-> stock_data[1].price, n |-> 1]
       /\ volatility(stock_data[1]) = Some(0)
       /\ Len(faiss_index) = 1
       /\ faiss_index[1].symbol = symbols[1]
       /\ Len(emitted) = 1
       /\ emitted[1].event = "stock_update"
       /\ alert_history = <<>>
       /\ prev_prices = NoPrices

\* the first tick of a loop started on an empty store is over
C17_Witness ==
    /\ pc = "sleep" /\ tick = 1
    /\ symbols = <<"AAPL">>
    /\ alerts = <<>>
    /\ Len(stock_data) = 1
    /\ stock_data[1].tick = 1
    /\ emitted # <<>>

\* C18: the synthetic generator takes as basis price of a symbol with no
\* persisted observation exactly its seed price (REAL_TIME_PRICES, 100.0
\* without an entry), and of a symbol with history the price of its
\* persisted observation with the greatest datetime: every row it produces
\* is the price function applied to that basis.
C18_BasisIsSeedOrLatestObservation ==
    [][\A i \in NewRows :
          stock_data'[i].source = "mock" =>
              /\ IsBasis(stock_data'[i].symbol, BasePrice(stock_data'[i].symbol))
              /\ \E basis \in BasisPrices(stock_data'[i].symbol), draw \in GenDraws :
                    stock_data'[i].price = MockPrice(basis, draw)]_vars

\* create_mock_data has produced a row for a symbol with populated history,
\* at a price the seed price could not have given
C18_Witness ==
    /\ pc = "publish"
    /\ \E i, j \in DOMAIN stock_data :
          /\ stock_data[i].source = "hist"
          /\ stock_data[j].source = "mock" /\ stock_data[j].tick = tick
          /\ stock_data[j].symbol = stock_data[i].symbol
          /\ \A draw \in GenDraws :
                stock_data[j].price # MockPrice(REAL_TIME_PRICES(stock_data[j].symbol), draw)

----------------------------------------------------------------------------
(* Properties of create_alert *)

\* C19: every create_alert call that returns has inserted exactly one new
\* alert rule with the given symbol, kind and fields and with status
\* 'active', and the rule stays 'active' until an evaluation pass triggers
\* it.
C19_ReturnedCallStoredActiveRule ==
    [][/\ Len(returned') = Len(returned) + 1 =>
             /\ Len(alerts') = Len(alerts) + 1
             /\ alerts'[Len(alerts')] = NewAlert(returned'[Len(returned')])
       /\ \A i \in DOMAIN alerts :
             alerts[i].status = "active" /\ alerts'[i].status # "active" => PassStep]_vars

----------------------------------------------------------------------------
(* Shutdown of the streaming loop *)

\* C20: the loop supports a cooperative stop signal: once a stop is
\* requested, the loop exits without starting another tick.
C20_NoTickAfterStopRequest ==
    [][stop_requested => ~(pc = "tick" /\ pc' # "tick")]_vars

----------------------------------------------------------------------------
(* Properties of the shared rate window *)

\* C21: the counts form one shared 60-second window: whenever a request is
\* about to be charged and 60 seconds or more have passed since the last
\* reset, all counts are reset and the window starts anew before the charge,
\* so no request is counted in a window that started 60 seconds or more
\* before it, in the middle of a batch as at its start.
C21_NoChargeInStaleWindow ==
    [][RequestStep =>
          LET api_key == requests'[Len(requests')].api_key
              sent == now' - SLEEP_BETWEEN_SYMBOL_REQUESTS
          IN  /\ sent - LAST_RESET_TIME' < WINDOW
              /\ now - LAST_RESET_TIME >= WINDOW =>
                    /\ API_KEY_REQUEST_COUNTS'[api_key] = 1
                    /\ \A k \in Keys \ {api_key} : API_KEY_REQUEST_COUNTS'[k] = 0
                    /\ LAST_RESET_TIME' >= now]_vars

----------------------------------------------------------------------------
(* Properties of a tick *)

\* the prices of the rows of a symbol written in the tick in progress
PricesOfTick(symbol) ==
    {stock_data[j].price : j \in RowsOfTick(symbol, tick)}

\* C22: in each tick's evaluation pass, the price an active rule is
\* evaluated against is the price of the most recently persisted observation
\* of its symbol, the one written in that same tick, for every sequence of
\* closed-market and open-market ticks.
C22_EvaluatedAgainstThisTicksPrice ==
    [][PassStep =>
          \A i \in DOMAIN alerts :
              (alerts[i].status = "active" /\ SymbolData(alerts[i].symbol) # {})
                  => LatestPrice(alerts[i].symbol) \in PricesOfTick(alerts[i].symbol)]_vars

\* a closed-market tick of run: create_mock_data(self.symbols,
\* self.last_timestamp)
RunClosedStep == ClosedStep /\ calls' = calls

\* the rows of a closed-market tick carry one timestamp, later than every
\* persisted one
OneFreshTimestamp(basis_time) ==
    /\ \A k \in DOMAIN df' : df'[k].datetime = basis_time
    /\ \A j \in DOMAIN stock_data : stock_data[j].datetime < basis_time

\* C23: in a closed-market tick the basis time given to the generator is
\* the greatest persisted timestamp plus 1 minute, or the current time when
\* no observation is persisted; all observations of the tick carry that one
\* timestamp, and it is strictly increasing across closed-market ticks.
C23_BasisTimeNowWhenNoHistory ==
    [][RunClosedStep =>
          OneFreshTimestamp(IF IsSet(MaxDatetime) THEN MaxDatetime[1] + MINUTE
                            ELSE now)]_vars

\* C23, amended: the basis time is the greatest persisted timestamp, or the
\* current time when no observation is persisted, plus 1 minute in both
\* cases; all observations of the tick carry that one timestamp, and it is
\* strictly increasing across closed-market ticks.
C23_BasisTimeOneMinuteLater ==
    [][RunClosedStep =>
          OneFreshTimestamp((IF IsSet(MaxDatetime) THEN MaxDatetime[1] ELSE now)
                            + MINUTE)]_vars

\* two closed-market ticks in a row on a store that was empty: the rows are
\* stamped one and two minutes after the start
C23_Witness ==
    /\ pc = "publish" /\ tick = 2
    /\ Len(stock_data) = 2
    /\ stock_data[1].datetime = StartTime + MINUTE
    /\ stock_data[2].datetime = StartTime + 2 * MINUTE
    /\ df = <<stock_data[2]>>

\* the rows of the batch in hand are persisted and indexed
BatchPersisted ==
    /\ \A k \in DOMAIN df : \E j \in DOMAIN stock_data : stock_data[j] = df[k]
    /\ faiss_index = update_faiss_index(df)

\* C24: within a tick that produces a non-empty batch the batch is persisted
\* and the index updated, then exactly one stock_update event is published
\* per observation of the batch, then exactly one evaluation pass runs; no
\* event is published and no pass runs before the observations are
\* persisted.
C24_PersistPublishEvaluate ==
    /\ []((pc \in {"publish", "alerts"} /\ df # <<>>) => BatchPersisted)
    /\ [][(pc = "publish" /\ df # <<>> /\ pc' # pc)
            => emitted' = emitted \o StockUpdates(df) /\ pc' = "alerts"]_vars
    /\ [][(pc = "alerts" /\ pc' # pc) => PassStep /\ df # <<>>]_vars
    /\ [][(pc' = "alerts" /\ pc' # pc) => pc = "publish"]_vars

----------------------------------------------------------------------------
(* Properties of an evaluation pass over several rules *)

TriggerEvents(out) == {k \in DOMAIN out : out[k].event = "alert_triggered"}

\* C25: an alert_triggered event is published only for a rule whose
\* transition to 'triggered' and whose history record are persisted by that
\* pass: at most one such event is ever published per rule, and the number
\* of published trigger events equals the number of alert_history records.
C25_TriggerEventOnlyWithPersistedTrigger ==
    /\ \A i \in DOMAIN alerts :
          /\ Cardinality(TriggerEventsOf(emitted, i)) <= 1
          /\ TriggerEventsOf(emitted, i) # {} =>
                alerts[i].status = "triggered" /\ HistoryOf(alert_history, i) # {}
    /\ Cardinality(TriggerEvents(emitted)) = Len(alert_history)

\* a rule whose evaluation does not raise
WellFormed(i) == SymbolData(alerts[i].symbol) = {} \/ ~EvalRaises(alerts[i])

\* the active rules of a pass whose evaluation does not raise, in id order
ActiveWellFormed == SelectSeq(ActiveIds(alerts), WellFormed)

\* C26: when evaluating one rule raises, only that rule is skipped: every
\* other active rule is still evaluated in the same pass, and the triggers
\* decided for other rules in that pass are still persisted; the pass leaves
\* the tables as a pass over the other rules alone would.
C26_OnlyTheRaisingRuleSkipped ==
    [][PassStep =>
          LET others == EvalAll(PassStart, ActiveWellFormed)
          IN  /\ alerts' = others.tbl
              /\ alert_history' = others.hist]_vars

\* a rule whose symbol has no row in the recent price data
NoRecentData(i) == SymbolData(alerts[i].symbol) = {}
HasRecentData(i) == ~NoRecentData(i)

\* the active rules of a pass whose symbol has recent data, in id order
ActiveWithData == SelectSeq(ActiveIds(alerts), HasRecentData)

\* C27: an active rule whose symbol has no row in the recent price data is
\* skipped without error: its status stays 'active', no record or event is
\* produced for it, the prev_prices entry of its symbol is not changed, and
\* the remaining rules of the pass are evaluated as they are without it.
C27_RuleWithoutDataSkipped ==
    [][PassStep =>
          LET rest == EvalAll(PassStart, ActiveWithData)
          IN  /\ \A i \in DOMAIN alerts :
                    (alerts[i].status = "active" /\ NoRecentData(i))
                        => /\ alerts'[i].status = "active"
                           /\ HistoryOf(alert_history', i) = {}
                           /\ TriggerEventsOf(emitted', i) = {}
                           /\ prev_prices'[alerts[i].symbol] = prev_prices[alerts[i].symbol]
              /\ alerts' = Committed(alerts, rest.tbl, rest.raised)
              /\ alert_history' = Committed(alert_history, rest.hist, rest.raised)
              /\ emitted' = rest.out
              /\ prev_prices' = rest.cache]_vars

\* a pass has skipped the rule on the symbol without data and triggered the
\* rule after it
C27_Witness ==
    /\ pc = "sleep"
    /\ Len(alerts) >= 2
    /\ alerts[1].symbol = "NVDA" /\ alerts[1].status = "active"
    /\ alerts[2].status = "triggered"
    /\ \E k \in DOMAIN alert_history :
          alert_history[k].alert_id = 2 /\ alert_history[k].tick = tick
    /\ prev_prices["NVDA"] = None
    /\ prev_prices["AAPL"] # None

----------------------------------------------------------------------------
(* Properties of a tick whose write or index update fails *)

\* the write of the batch of the tick in progress has failed: run's
\* create_mock_data came back empty, or save_to_db raised in fetch_stock_data
TickWriteFailed ==
    /\ pc \in {"publish", "alerts", "sleep"}
    /\ \/ df = <<>>
       \/ /\ calls # <<>>
          /\ calls[Len(calls)].tick = tick
          /\ calls[Len(calls)].result = "save_failed"

EventsOfTick(t) == {k \in DOMAIN emitted : emitted[k].tick = t}

\* C28: when the persistence write of a tick's batch fails the tick is
\* abandoned: no stock_update event is published and no evaluation pass runs
\* in that tick, no second write is made within that tick, and the loop
\* proceeds to the next tick.
C28_TickAbandonedOnWriteFailure ==
    /\ [](TickWriteFailed =>
            /\ pc # "alerts"
            /\ EventsOfTick(tick) = {}
            /\ \A k \in DOMAIN symbols : RowsOfTick(symbols[k], tick) = {})
    /\ [][(TickWriteFailed /\ pc' # pc) => pc' \in {"sleep", "tick"}]_vars

\* a closed-market tick whose rows are written and whose index update fails
IndexFailStep ==
    /\ RunClosedStep
    /\ NewRows # {}
    /\ faiss_index' \in {faiss_index, <<>>}

\* the batch in hand is not what the index was last built from
IndexStale == df # <<>> /\ faiss_index # update_faiss_index(df)

\* C29: a failure while updating the vector index is logged and swallowed:
\* the tick's observations remain persisted, and the tick still publishes
\* its events and runs its evaluation pass.
C29_IndexFailureSwallowed ==
    /\ [][IndexFailStep =>
            /\ df' = [k \in 1 .. Cardinality(NewRows) |-> stock_data'[Len(stock_data) + k]]
            /\ pc' = "publish"]_vars
    /\ []((IndexStale /\ pc \in {"publish", "alerts", "sleep"}) =>
            \A k \in DOMAIN df : \E j \in DOMAIN stock_data : stock_data[j] = df[k])
    /\ [][(IndexStale /\ pc = "publish" /\ pc' # pc)
            => emitted' = emitted \o StockUpdates(df) /\ pc' = "alerts"]_vars
    /\ [][(IndexStale /\ pc = "alerts" /\ pc' # pc) => PassStep]_vars

\* a tick whose index update failed is over: its row is persisted, its
\* event published and the pass has seen its price, the index still holding
\* the batch of the tick before
C29_Witness ==
    /\ pc = "sleep" /\ tick = 2
    /\ IndexStale
    /\ faiss_index # <<>>
    /\ \E j \in DOMAIN stock_data : stock_data[j] = df[1]
    /\ \E k \in EventsOfTick(tick) :
          emitted[k].event = "stock_update" /\ emitted[k].price = df[1].price
    /\ tickPrice["AAPL"] = Some(df[1].price)

\* the tracked symbols of which stock_data holds a row of tick t
SymbolsWritten(t) == {k \in DOMAIN symbols : RowsOfTick(symbols[k], t) # {}}

\* C30: the rows a tick writes to stock_data become visible as one atomic
\* batch: no reader, at any moment, finds some of the tick's rows persisted
\* and the rows of other symbols of the same tick not persisted.
C30_TickRowsVisibleAtOnce ==
    \A t \in 1 .. tick : SymbolsWritten(t) \in {{}, DOMAIN symbols}

\* a step that ends a tick without an evaluation pass: the batch came back
\* empty, or an exception has left the loop
AbandonStep == pc' # pc /\ pc' \in {"sleep", "dead"} /\ ~PassStep

\* C31: a tick either completes its whole sequence of persistence, index
\* update and alert evaluation, or performs no write at all: no tick that
\* has persisted observations is abandoned before its evaluation pass ran.
C31_NoWriteInAbandonedTick ==
    [][AbandonStep => \A k \in DOMAIN symbols : RowsOfTick(symbols[k], tick) = {}]_vars

\* the observations persisted by the ticks of this run
PersistedSoFar(tbl) == {i \in DOMAIN tbl : tbl[i].tick >= 1}

\* C32: after each successful index update the similarity index and its
\* metadata store hold one entry for every observation persisted so far: the
\* rebuild retains the entries of earlier ticks and adds the new ones.
C32_IndexHoldsEveryObservation ==
    [][(ClosedStep /\ df' # <<>>) =>
           Len(faiss_index') = Cardinality(PersistedSoFar(stock_data'))]_vars

\* the pipeline threads that are alive
LiveWorkers == {t \in DOMAIN threads : is_alive(t)}

\* C33: at most one ingestion pipeline worker is ever alive, under any
\* interleaving of start_pipeline calls (startup and concurrent
\* update_symbols requests), including after the worker thread has died.
C33_AtMostOneLiveWorker == Cardinality(LiveWorkers) <= 1

====
